---- MODULE Spec2Model ----
(***************************************************************************)
(* Model of usage_server.py: a single-threaded HTTPServer whose do_GET     *)
(* routes /health, /usage and /usage/fresh, and whose get_usage serves the *)
(* Anthropic usage payload out of the process-wide dict _cache or fetches  *)
(* it with the OAuth token read from the macOS keychain.                   *)
(*                                                                         *)
(* Time is counted in ticks of 1/TicksPerSecond seconds, so that           *)
(* round(now - fetched_at) has fractions and ties to round.                *)
(* A request path is the sequence of its pieces, "/" being a piece.        *)
(***************************************************************************)
EXTENDS Integers, Sequences, FiniteSets, TLC

VARIABLES
    cache,      \* _cache: "data", "fetched_at" and, once written, "fetched_at_iso"
    mono,       \* time.monotonic(), in ticks
    wall,       \* datetime.now(timezone.utc).isoformat(), were it read now
    ticks,      \* how many times the clocks have advanced so far
    backlog,    \* connections queued on the listening socket, not yet handled
    arrived,    \* how many requests have arrived so far
    pc,         \* where the one server thread is: "idle", "keychain", "fetch",
                \* "store_data", "store_fetched_at", "store_iso"
    call,       \* the get_usage call in progress, or the last one finished
    resp,       \* the last HTTP response written by do_GET
    last        \* the most recent successful fetch: its payload, the `now` of
                \* its call and the ISO time it took at line 100

vars == <<cache, mono, wall, ticks, backlog, arrived, pc, call, resp, last>>

(***************************************************************************)
(* Bounds of the model.                                                    *)
(***************************************************************************)
TicksPerSecond == 2
MaxTicks == 2
MaxBacklog == 1
MaxRequests == 3

(***************************************************************************)
(* Program constants.                                                      *)
(***************************************************************************)
CACHE_TTL_SECONDS == 300

TTLTicks == CACHE_TTL_SECONDS * TicksPerSecond

\* The clock advances the model lets happen between two steps: a fraction of
\* a second and one tick short of the TTL (the two together: the TTL exactly).
Advances == {1, TTLTicks - 1}

(***************************************************************************)
(* Python values: None and dicts (a dict is the set of its items).         *)
(***************************************************************************)
None == [type |-> "NoneType", items |-> {}]

Dict(items) == [type |-> "dict", items |-> items]

\* bool(v), as the `and` of line 87 takes it: None and the empty dict are false
Truthy(v) == IF v.type = "NoneType" THEN FALSE ELSE v.items # {}

\* a Round that truncates, as int(x) would
Round_Truncating(n) == n \div TicksPerSecond

\* round(x) of Python 3 for x = n / TicksPerSecond, n >= 0: to the nearest
\* integer, a tie going to the even one
Round(n) ==
    LET q == n \div TicksPerSecond
        r == n % TicksPerSecond
    IN  IF 2 * r < TicksPerSecond THEN q
        ELSE IF 2 * r > TicksPerSecond THEN q + 1
        ELSE IF q % 2 = 0 THEN q ELSE q + 1

\* what json.loads can return for a 2xx body: {} and two usage reports
Payloads ==
    { Dict({}), Dict({<<"five_hour", 10>>}), Dict({<<"five_hour", 20>>}) }

(***************************************************************************)
(* read_keychain_token.  A keychain entry is described by what each step   *)
(* of the function meets: how `security` ends, what json.loads makes of    *)
(* its output, what creds["claudeAiOauth"] is, what ["accessToken"] is.    *)
(***************************************************************************)
Entry(run, parse, oauth, token) ==
    [run |-> run, parse |-> parse, oauth |-> oauth, token |-> token]

KeychainEntries ==
    { Entry("ok", "dict", "dict", "tok"),           \* a logged-in Claude Code
      Entry("nonzero", "dict", "dict", "tok"),      \* `security` exits non-zero: no such entry
      Entry("noexec", "dict", "dict", "tok"),       \* no `security` executable
      Entry("ok", "invalid", "dict", "tok"),        \* output is not JSON
      Entry("ok", "list", "dict", "tok"),           \* JSON, but a list
      Entry("ok", "dict", "missing", "tok"),        \* no "claudeAiOauth" key
      Entry("ok", "dict", "null", "tok"),           \* "claudeAiOauth": null
      Entry("ok", "dict", "dict", "missing"),       \* no "accessToken" key
      Entry("ok", "dict", "dict", "empty") }        \* "accessToken": ""

Returned(v) == [exc |-> "none", msg |-> "", value |-> v]

Raised(exc, msg) == [exc |-> exc, msg |-> msg, value |-> None]

NotFoundMsg == "Keychain-Eintrag 'Claude Code-credentials' nicht gefunden."
FormatMsg == "Unerwartetes Format des Keychain-Eintrags"
EmptyMsg == "accessToken ist leer."

read_keychain_token(e) ==
    IF e.run = "noexec" THEN Raised("FileNotFoundError", "security")
    ELSE IF e.run = "nonzero" THEN Raised("RuntimeError", NotFoundMsg)
    ELSE IF e.parse = "invalid" THEN Raised("RuntimeError", FormatMsg)
    ELSE IF e.parse = "list" THEN Raised("TypeError", "list indices must be integers")
    ELSE IF e.oauth = "missing" THEN Raised("RuntimeError", FormatMsg)
    ELSE IF e.oauth = "null" THEN Raised("TypeError", "'NoneType' object is not subscriptable")
    ELSE IF e.token = "missing" THEN Raised("RuntimeError", FormatMsg)
    ELSE IF e.token = "empty" THEN Raised("RuntimeError", EmptyMsg)
    ELSE Returned(e.token)

(***************************************************************************)
(* fetch_usage_from_anthropic.  What the upstream does with the one        *)
(* request: `net` is "ok" when a status line came back, "urlerror" when    *)
(* urlopen raised URLError (refused, DNS, connect timeout), "timeout" when *)
(* the socket timed out while the response was being read.                 *)
(***************************************************************************)
Reply(net, status, parses, body) ==
    [net |-> net, status |-> status, parses |-> parses, body |-> body]

UpstreamReplies ==
    { Reply("ok", 200, TRUE, p) : p \in Payloads }
    \cup { Reply("ok", 200, FALSE, None),           \* 2xx, body is not JSON
           Reply("ok", 401, FALSE, None),
           Reply("ok", 403, FALSE, None),
           Reply("ok", 500, FALSE, None),
           Reply("urlerror", 0, FALSE, None),
           Reply("timeout", 0, FALSE, None) }

ExpiredMsg == "Token abgelaufen oder ungueltig. Bitte in Claude Code neu anmelden."
ApiMsg == "Anthropic API Fehler HTTP"
NetMsg == "Netzwerkfehler"

fetch_usage_from_anthropic(token, u) ==
    IF u.net = "urlerror" THEN Raised("RuntimeError", NetMsg)
    ELSE IF u.net = "timeout" THEN Raised("TimeoutError", "timed out")
    ELSE IF u.status \in {401, 403} THEN Raised("RuntimeError", ExpiredMsg)
    ELSE IF u.status \notin 200..299 THEN Raised("RuntimeError", ApiMsg)
    ELSE IF ~u.parses THEN Raised("JSONDecodeError", "Expecting value")
    ELSE Returned(u.body)

(***************************************************************************)
(* Request paths and str.rstrip("/").                                      *)
(***************************************************************************)
\* an rstrip that removes one trailing "/" only
rstrip_Once(path) ==
    IF path # <<>> /\ path[Len(path)] = "/"
    THEN SubSeq(path, 1, Len(path) - 1)
    ELSE path

RECURSIVE rstrip(_)
rstrip(path) ==
    IF path # <<>> /\ path[Len(path)] = "/"
    THEN rstrip(SubSeq(path, 1, Len(path) - 1))
    ELSE path

HealthPath == <<"/", "health">>
UsagePath == <<"/", "usage">>
FreshPath == <<"/", "usage", "/", "fresh">>

Paths ==
    { HealthPath, UsagePath, FreshPath,
      UsagePath \o <<"/">>, FreshPath \o <<"/", "/">>, <<"/", "usages">> }

(***************************************************************************)
(* State.                                                                  *)
(***************************************************************************)
\* the instants the wall clock shows; it is not tied to the monotonic clock
IsoTimes == {"2026-01-01T00:00:00+00:00", "2025-12-31T23:59:30+00:00"}

\* _cache as the module creates it: it has no "fetched_at_iso" key yet
InitCache == [data |-> None, fetched_at |-> 0]

\* the dict get_usage returns
UsageResult(cached, age, iso, usage) ==
    [cached |-> cached, cache_age_seconds |-> age, fetched_at |-> iso, usage |-> usage]

NoResult == UsageResult(FALSE, 0, "", None)

\* the local `token` of get_usage before line 95 has assigned it
NoToken == ""

\* the record of one get_usage call: its argument, the `now` it read, the
\* branch line 87 took, its locals `token` and `data`, the keychain reads and
\* upstream requests it made, and how it ended: the dict it returned or the
\* exception it raised
NoCall ==
    [state |-> "none", force |-> FALSE, now |-> 0, decision |-> "none",
     token |-> NoToken, data |-> None, reads |-> 0, fetches |-> 0,
     exc |-> "none", result |-> NoResult]

\* what send_json wrote for a request: the status and the kind of JSON body
\* ("usage": the dict get_usage returned; "error": {"error": message}).  The
\* kind is "dropped" when do_GET ended in an exception it does not catch and
\* the connection was closed with nothing written
Response(status, kind, error) ==
    [status |-> status, kind |-> kind, error |-> error]

NoResponse == Response(0, "none", "")

Init ==
    /\ cache = InitCache
    /\ mono = 0
    /\ wall \in IsoTimes
    /\ ticks = 0
    /\ backlog = <<>>
    /\ arrived = 0
    /\ pc = "idle"
    /\ call = NoCall
    /\ resp = NoResponse
    /\ last = InitCache

(***************************************************************************)
(* The environment: clients and clocks.                                    *)
(***************************************************************************)
\* a client connects and sends GET path; the listening socket queues it
Arrive(path) ==
    /\ arrived < MaxRequests
    /\ Len(backlog) < MaxBacklog
    /\ backlog' = Append(backlog, path)
    /\ arrived' = arrived + 1
    /\ UNCHANGED <<cache, mono, wall, ticks, pc, call, resp, last>>

\* a Tick of a clock that can be set back, as time.time() can
Tick_SetBack(d) ==
    /\ ticks < MaxTicks
    /\ mono' \in {mono + d, mono - d}
    /\ ticks' = ticks + 1
    /\ UNCHANGED <<cache, wall, backlog, arrived, pc, call, resp, last>>

\* time passes, also while the server thread is inside a blocking call
Tick(d) ==
    /\ ticks < MaxTicks
    /\ mono' = mono + d
    /\ ticks' = ticks + 1
    /\ UNCHANGED <<cache, wall, backlog, arrived, pc, call, resp, last>>

\* the wall clock is set (NTP, the user): it may jump either way
WallJump(w) ==
    /\ w # wall
    /\ wall' = w
    /\ UNCHANGED <<cache, mono, ticks, backlog, arrived, pc, call, resp, last>>

(***************************************************************************)
(* The server: HTTPServer handles one request at a time, so do_GET runs    *)
(* only when the thread is idle.  An action is the code from one blocking  *)
(* call of the handler to the next.                                        *)
(***************************************************************************)
Path == rstrip(Head(backlog))

\* a CacheHit that forgets the force_refresh flag
CacheHit_IgnoringForce(force, now) ==
    /\ Truthy(cache.data)
    /\ now - cache.fetched_at < TTLTicks

\* what get_usage reads besides its argument and the monotonic clock: the
\* module-level _cache and the wall clock of datetime.now
World(c, w) == [cache |-> c, wall |-> w]

\* a test of line 87 that takes a snapshot for fresh while the wall clock
\* still shows the time it was fetched at
CacheHitIn_WallClock(world, force, now) ==
    /\ ~force
    /\ Truthy(world.cache.data)
    /\ "fetched_at_iso" \in DOMAIN world.cache
    /\ world.cache.fetched_at_iso = world.wall

\* line 87, as a function of what it reads
CacheHitIn(world, force, now) ==
    /\ ~force
    /\ Truthy(world.cache.data)
    /\ now - world.cache.fetched_at < TTLTicks

\* line 87
CacheHit(force, now) == CacheHitIn(World(cache, wall), force, now)

\* lines 88-93, as a function of what they read
HitResultIn(world, now) ==
    UsageResult(TRUE, Round(now - world.cache.fetched_at),
                world.cache.fetched_at_iso, world.cache.data)

\* lines 88-93
HitResult(now) == HitResultIn(World(cache, wall), now)

\* a /health that also empties the cache
DoGetHealth_ClearingCache ==
    /\ pc = "idle"
    /\ backlog # <<>>
    /\ Path = HealthPath
    /\ backlog' = Tail(backlog)
    /\ resp' = Response(200, "health", "")
    /\ cache' = InitCache
    /\ UNCHANGED <<mono, wall, ticks, arrived, pc, call, last>>

\* do_GET, path "/health"
DoGetHealth ==
    /\ pc = "idle"
    /\ backlog # <<>>
    /\ Path = HealthPath
    /\ backlog' = Tail(backlog)
    /\ resp' = Response(200, "health", "")
    /\ UNCHANGED <<cache, mono, wall, ticks, arrived, pc, call, last>>

\* do_GET, any other path than the three
DoGetNotFound ==
    /\ pc = "idle"
    /\ backlog # <<>>
    /\ Path \notin {HealthPath, UsagePath, FreshPath}
    /\ backlog' = Tail(backlog)
    /\ resp' = Response(404, "notfound", "Not found")
    /\ UNCHANGED <<cache, mono, wall, ticks, arrived, pc, call, last>>

\* a DoGetUsage of a threading server: the hit path also runs on a second
\* thread while the first is between lines 98 and 100
DoGetUsage_Threaded ==
    /\ backlog # <<>>
    /\ Path \in {UsagePath, FreshPath}
    /\ LET force == (Path = FreshPath)
           now == mono
           started == [NoCall EXCEPT !.force = force, !.now = now]
       IN  /\ \/ pc = "idle"
              \/ /\ pc \in {"store_fetched_at", "store_iso"}
                 /\ CacheHit(force, now)
                 /\ "fetched_at_iso" \in DOMAIN cache
           /\ IF CacheHit(force, now)
              THEN /\ call' = [started EXCEPT !.state = "returned", !.decision = "HIT",
                                               !.result = HitResult(now)]
                   /\ resp' = Response(200, "usage", "")
                   /\ pc' = pc
              ELSE /\ call' = [started EXCEPT !.state = "keychain", !.decision = "MISS"]
                   /\ pc' = "keychain"
                   /\ UNCHANGED resp
    /\ backlog' = Tail(backlog)
    /\ UNCHANGED <<cache, mono, wall, ticks, arrived, last>>

\* do_GET, paths "/usage" and "/usage/fresh": get_usage up to its return on
\* the hit path, or up to the call of read_keychain_token
DoGetUsage ==
    /\ pc = "idle"
    /\ backlog # <<>>
    /\ Path \in {UsagePath, FreshPath}
    /\ LET force == (Path = FreshPath)
           now == mono
           started == [NoCall EXCEPT !.force = force, !.now = now]
       IN  IF CacheHit(force, now)
           THEN /\ call' = [started EXCEPT !.state = "returned", !.decision = "HIT",
                                            !.result = HitResult(now)]
                /\ resp' = Response(200, "usage", "")
                /\ pc' = "idle"
           ELSE /\ call' = [started EXCEPT !.state = "keychain", !.decision = "MISS"]
                /\ pc' = "keychain"
                /\ UNCHANGED resp
    /\ backlog' = Tail(backlog)
    /\ UNCHANGED <<cache, mono, wall, ticks, arrived, last>>

\* lines 133-137 and the socketserver loop around do_GET: a RuntimeError
\* becomes a 500, any other exception closes the connection unanswered
Failure(r) ==
    IF r.exc = "RuntimeError"
    THEN Response(500, "error", r.msg)
    ELSE Response(0, "dropped", "")

\* a ReadKeychain that empties the cache when the token cannot be read
ReadKeychain_ClearingCache ==
    /\ pc = "keychain"
    /\ \E e \in KeychainEntries :
         LET r == read_keychain_token(e)
             read == [call EXCEPT !.reads = call.reads + 1]
         IN  IF r.exc = "none"
             THEN /\ call' = [read EXCEPT !.state = "fetch", !.token = r.value]
                  /\ pc' = "fetch"
                  /\ UNCHANGED <<cache, resp>>
             ELSE /\ call' = [read EXCEPT !.state = "raised", !.exc = r.exc]
                  /\ resp' = Failure(r)
                  /\ pc' = "idle"
                  /\ cache' = InitCache
    /\ UNCHANGED <<mono, wall, ticks, backlog, arrived, last>>

\* line 95: read_keychain_token returns or raises
ReadKeychain ==
    /\ pc = "keychain"
    /\ \E e \in KeychainEntries :
         LET r == read_keychain_token(e)
             read == [call EXCEPT !.reads = call.reads + 1]
         IN  IF r.exc = "none"
             THEN /\ call' = [read EXCEPT !.state = "fetch", !.token = r.value]
                  /\ pc' = "fetch"
                  /\ UNCHANGED resp
             ELSE /\ call' = [read EXCEPT !.state = "raised", !.exc = r.exc]
                  /\ resp' = Failure(r)
                  /\ pc' = "idle"
    /\ UNCHANGED <<cache, mono, wall, ticks, backlog, arrived, last>>

\* a FetchUsage that asks the upstream a second time after a RuntimeError
FetchUsage_Retrying ==
    /\ pc = "fetch"
    /\ \E u \in UpstreamReplies :
         LET r == fetch_usage_from_anthropic(call.token, u)
             fetched == [call EXCEPT !.fetches = call.fetches + 1]
         IN  IF r.exc = "none"
             THEN /\ call' = [fetched EXCEPT !.state = "store", !.data = r.value]
                  /\ pc' = "store_data"
                  /\ UNCHANGED resp
             ELSE IF r.exc = "RuntimeError" /\ call.fetches = 0
             THEN /\ call' = fetched
                  /\ pc' = "fetch"
                  /\ UNCHANGED resp
             ELSE /\ call' = [fetched EXCEPT !.state = "raised", !.exc = r.exc]
                  /\ resp' = Failure(r)
                  /\ pc' = "idle"
    /\ UNCHANGED <<cache, mono, wall, ticks, backlog, arrived, last>>

\* a FetchUsage that answers with the stored snapshot when the fetch fails
FetchUsage_ServingStale ==
    /\ pc = "fetch"
    /\ \E u \in UpstreamReplies :
         LET r == fetch_usage_from_anthropic(call.token, u)
             fetched == [call EXCEPT !.fetches = call.fetches + 1]
         IN  IF r.exc = "none"
             THEN /\ call' = [fetched EXCEPT !.state = "store", !.data = r.value]
                  /\ pc' = "store_data"
                  /\ UNCHANGED resp
             ELSE IF Truthy(cache.data)
             THEN /\ call' = [fetched EXCEPT !.state = "returned",
                                               !.result = HitResult(call.now)]
                  /\ resp' = Response(200, "usage", "")
                  /\ pc' = "idle"
             ELSE /\ call' = [fetched EXCEPT !.state = "raised", !.exc = r.exc]
                  /\ resp' = Failure(r)
                  /\ pc' = "idle"
    /\ UNCHANGED <<cache, mono, wall, ticks, backlog, arrived, last>>

\* a FetchUsage whose uncaught exceptions end serve_forever
FetchUsage_Stopping ==
    /\ pc = "fetch"
    /\ \E u \in UpstreamReplies :
         LET r == fetch_usage_from_anthropic(call.token, u)
             fetched == [call EXCEPT !.fetches = call.fetches + 1]
         IN  IF r.exc = "none"
             THEN /\ call' = [fetched EXCEPT !.state = "store", !.data = r.value]
                  /\ pc' = "store_data"
                  /\ UNCHANGED resp
             ELSE /\ call' = [fetched EXCEPT !.state = "raised", !.exc = r.exc]
                  /\ resp' = Failure(r)
                  /\ pc' = IF r.exc = "RuntimeError" THEN "idle" ELSE "stopped"
    /\ UNCHANGED <<cache, mono, wall, ticks, backlog, arrived, last>>

\* line 96: fetch_usage_from_anthropic returns or raises
FetchUsage ==
    /\ pc = "fetch"
    /\ \E u \in UpstreamReplies :
         LET r == fetch_usage_from_anthropic(call.token, u)
             fetched == [call EXCEPT !.fetches = call.fetches + 1]
         IN  IF r.exc = "none"
             THEN /\ call' = [fetched EXCEPT !.state = "store", !.data = r.value]
                  /\ pc' = "store_data"
                  /\ UNCHANGED resp
             ELSE /\ call' = [fetched EXCEPT !.state = "raised", !.exc = r.exc]
                  /\ resp' = Failure(r)
                  /\ pc' = "idle"
    /\ UNCHANGED <<cache, mono, wall, ticks, backlog, arrived, last>>

\* a StoreData that keeps a payload already stored, as setdefault would
StoreData_KeepingFirst ==
    /\ pc = "store_data"
    /\ cache' = IF Truthy(cache.data) THEN cache ELSE [cache EXCEPT !.data = call.data]
    /\ pc' = "store_fetched_at"
    /\ UNCHANGED <<mono, wall, ticks, backlog, arrived, call, resp, last>>

\* line 98: _cache["data"] = data
StoreData ==
    /\ pc = "store_data"
    /\ cache' = [cache EXCEPT !.data = call.data]
    /\ pc' = "store_fetched_at"
    /\ UNCHANGED <<mono, wall, ticks, backlog, arrived, call, resp, last>>

\* line 99: _cache["fetched_at"] = now
StoreFetchedAt ==
    /\ pc = "store_fetched_at"
    /\ cache' = [cache EXCEPT !.fetched_at = call.now]
    /\ pc' = "store_iso"
    /\ UNCHANGED <<mono, wall, ticks, backlog, arrived, call, resp, last>>

\* lines 100-107 and 135: the wall clock is read into _cache["fetched_at_iso"],
\* the result is built and sent
StoreIso ==
    /\ pc = "store_iso"
    /\ cache' = [data |-> cache.data, fetched_at |-> cache.fetched_at,
                 fetched_at_iso |-> wall]
    /\ call' = [call EXCEPT !.state = "returned",
                            !.result = UsageResult(FALSE, 0, wall, call.data)]
    /\ resp' = Response(200, "usage", "")
    /\ last' = [data |-> call.data, fetched_at |-> call.now, fetched_at_iso |-> wall]
    /\ pc' = "idle"
    /\ UNCHANGED <<mono, wall, ticks, backlog, arrived>>

Next ==
    \/ \E path \in Paths : Arrive(path)
    \/ \E d \in Advances : Tick(d)
    \/ \E w \in IsoTimes : WallJump(w)
    \/ DoGetHealth
    \/ DoGetNotFound
    \/ DoGetUsage
    \/ ReadKeychain
    \/ FetchUsage
    \/ StoreData
    \/ StoreFetchedAt
    \/ StoreIso

Spec == Init /\ [][Next]_vars

(***************************************************************************)
(* Properties.                                                             *)
(***************************************************************************)
\* some fetch has succeeded: lines 98-100 have written the cache
SnapshotStored == "fetched_at_iso" \in DOMAIN cache

\* the stored snapshot is younger than the TTL on the monotonic clock
YoungerThanTTL == mono - cache.fetched_at < TTLTicks

\* the get_usage call has ended, by a return or by an exception
Ended == call.state \in {"returned", "raised"}

\* C1: a get_usage(force_refresh = false) call made while a snapshot is
\* stored and now - fetched_at < 300 s returns cached = true and reads neither
\* the keychain nor the upstream.
C1_FreshSnapshotIsServedFromCache ==
    [][ (DoGetUsage /\ Path = UsagePath /\ SnapshotStored /\ YoungerThanTTL)
        => /\ pc' = "idle"
           /\ call'.state = "returned"
           /\ call'.result.cached
           /\ call'.reads = 0
           /\ call'.fetches = 0 ]_vars

\* C2: a non-forced call that follows a call which returned, less than the
\* TTL after the snapshot was fetched, makes no upstream fetch, returns the
\* same usage payload as the call before it and a cache_age_seconds that is
\* not smaller; so in a window of such calls only the one that opened it
\* fetched.
C2_WindowOfNonForcedCalls ==
    [][ (DoGetUsage /\ Path = UsagePath /\ call.state = "returned"
            /\ SnapshotStored /\ YoungerThanTTL)
        => /\ call'.state = "returned"
           /\ call'.fetches = 0
           /\ call'.result.usage = call.result.usage
           /\ call'.result.cache_age_seconds >= call.result.cache_age_seconds ]_vars

\* C3, as stated: every get_usage(force_refresh = true) call that has ended
\* made exactly one upstream fetch attempt.
C3_ForcedCallAlwaysFetchesOnce ==
    (call.force /\ Ended) => call.fetches = 1

\* C3, amended: every get_usage(force_refresh = true) call that has ended took
\* the miss path and read the keychain once, whatever the cache held; it made
\* exactly one upstream fetch attempt if that read gave a token, and none if
\* the read failed.
C3_ForcedCallFetchesOnceGivenToken ==
    (call.force /\ Ended)
        => /\ call.decision = "MISS"
           /\ call.reads = 1
           /\ call.fetches = (IF call.token = NoToken THEN 0 ELSE 1)

\* C3 witness: a forced call has ended after one fetch attempt although the
\* snapshot in the cache was truthy and younger than the TTL when it started.
C3_Witness ==
    /\ call.force
    /\ call.state = "raised"
    /\ call.fetches = 1
    /\ SnapshotStored
    /\ Truthy(cache.data)
    /\ call.now - cache.fetched_at < TTLTicks

\* C4: from the start of a get_usage call to the end of its keychain read the
\* cache is not written and no upstream fetch is attempted, and a call that
\* ends in the keychain read ends by raising, without a token; so the cache a
\* following call finds is the one this call found.
C4_CredentialFailureLeavesCache ==
    [][ /\ (DoGetUsage \/ pc = "keychain")
            => (cache' = cache /\ call'.fetches = 0)
        /\ (pc = "keychain" /\ pc' = "idle")
            => (call'.state = "raised" /\ call'.token = NoToken) ]_vars

\* C4 witness: a call has ended in a failed keychain read while a snapshot is
\* in the cache.
C4_Witness ==
    /\ call.state = "raised"
    /\ call.reads = 1
    /\ call.token = NoToken
    /\ call.fetches = 0
    /\ SnapshotStored

\* C5: a call that ends in a failed upstream fetch leaves the cache as it
\* was, and the non-forced call that follows a failed forced fetch, less than
\* the TTL after the stored payload P was fetched, returns cached = true with
\* P.
C5_FailedFetchLeavesCache ==
    [][ /\ (pc = "fetch" /\ pc' = "idle" /\ call'.state = "raised")
            => cache' = cache
        /\ (DoGetUsage /\ Path = UsagePath /\ call.state = "raised" /\ call.force
                /\ call.fetches = 1 /\ SnapshotStored /\ YoungerThanTTL)
            => /\ call'.state = "returned"
               /\ call'.result.cached
               /\ call'.result.usage = cache.data ]_vars

\* how far age seconds are from d ticks, in ticks
Off(age, d) == age * TicksPerSecond - d

\* age is round(d / TicksPerSecond): the nearest integer, the even one of two
IsRounded(age, d) ==
    /\ 2 * Off(age, d) <= TicksPerSecond
    /\ -2 * Off(age, d) <= TicksPerSecond
    /\ (2 * Off(age, d) \in {TicksPerSecond, -TicksPerSecond} => age % 2 = 0)

\* C6, as stated: in every result get_usage returned, cache_age_seconds is 0
\* if and only if cached is false, and when cached is true it is
\* round(now - fetched_at) of the snapshot and >= 0.
C6_AgeIsZeroExactlyWhenNotCached ==
    call.state = "returned"
        => /\ (call.result.cache_age_seconds = 0) <=> ~call.result.cached
           /\ call.result.cached
                => /\ call.result.cache_age_seconds >= 0
                   /\ IsRounded(call.result.cache_age_seconds,
                                call.now - cache.fetched_at)

\* C6, amended: in every result get_usage returned, cache_age_seconds is 0
\* when cached is false, and when cached is true it is round(now - fetched_at)
\* of the snapshot and >= 0 (which is 0 too for a snapshot at most half a
\* second old).
C6_AgeIsZeroWhenNotCached ==
    call.state = "returned"
        => /\ ~call.result.cached => call.result.cache_age_seconds = 0
           /\ call.result.cached
                => /\ call.result.cache_age_seconds >= 0
                   /\ IsRounded(call.result.cache_age_seconds,
                                call.now - cache.fetched_at)

\* C6 witness: a cached result whose age was rounded from a fraction of a
\* second to a positive number of seconds.
C6_Witness ==
    /\ call.state = "returned"
    /\ call.result.cached
    /\ call.result.cache_age_seconds > 0
    /\ (call.now - cache.fetched_at) % TicksPerSecond # 0

\* C7: get_usage decides HIT if and only if force_refresh is false, a snapshot
\* is stored and now - fetched_at < TTL; otherwise it decides MISS and goes on
\* to read the keychain.
C7_HitIffFreshSnapshotAndNotForced ==
    [][ DoGetUsage
        => /\ (call'.decision = "HIT")
                <=> (Path # FreshPath /\ SnapshotStored /\ YoungerThanTTL)
           /\ (call'.decision = "MISS") <=> (pc' = "keychain")
           /\ call'.decision \in {"HIT", "MISS"} ]_vars

\* C8: a get_usage call that ends in a failed upstream fetch is answered with
\* HTTP 500 and a JSON body {error: message}.
C8_FetchFailureIsA500 ==
    [][ (pc = "fetch" /\ pc' = "idle" /\ call'.state = "raised")
        => /\ resp'.status = 500
           /\ resp'.kind = "error"
           /\ resp'.error # "" ]_vars

\* C9: a get_usage call that ends in a failed keychain read raised the one
\* credential error kind (RuntimeError) and is answered with HTTP 500 and a
\* JSON body carrying the message.
C9_CredentialFailureIsA500 ==
    [][ (pc = "keychain" /\ pc' = "idle")
        => /\ call'.exc = "RuntimeError"
           /\ resp'.status = 500
           /\ resp'.kind = "error"
           /\ resp'.error # "" ]_vars

\* C10: while a request is inside the keychain read or the upstream fetch, a
\* GET /health that has arrived can be handled at once, without waiting for
\* that call to end.
C10_HealthNotBlockedByFetch ==
    (pc \in {"keychain", "fetch"} /\ backlog # <<>> /\ Path = HealthPath)
        => ENABLED DoGetHealth

\* ---------------------------------------------------------------------
\* Snapshots, routing, failures and responses

\* a step of do_GET that takes a request off the backlog
Dequeued == pc = "idle" /\ backlog # <<>> /\ backlog' = Tail(backlog)

\* C11: no call reads or returns a torn snapshot. Whenever get_usage
\* evaluates line 87 the three cache fields are those of one successful
\* fetch (or the cache is as created), a hit returns the payload, monotonic
\* time and ISO time of that one fetch, and a successful miss returns and
\* leaves behind the three values of its own fetch.
C11_NoTornSnapshot ==
    [][ /\ DoGetUsage =>
              /\ cache = last
              /\ call'.decision = "HIT" =>
                    /\ call'.result.usage = last.data
                    /\ call'.result.fetched_at = last.fetched_at_iso
                    /\ IsRounded(call'.result.cache_age_seconds, mono - last.fetched_at)
        /\ StoreIso =>
              /\ cache' = last'
              /\ call'.result.usage = last'.data
              /\ call'.result.fetched_at = last'.fetched_at_iso
      ]_vars

\* a /usage request waits while the cache holds the payload of a new fetch
\* next to the times of an older one
C11_Witness ==
    /\ pc \in {"store_fetched_at", "store_iso"}
    /\ "fetched_at_iso" \in DOMAIN cache
    /\ cache # last
    /\ Truthy(cache.data)
    /\ backlog # <<>>
    /\ Path = UsagePath

\* C12: every GET /health is answered 200 with the one fixed payload, reads
\* no credentials, sends no upstream request and leaves the cache as it was.
C12_HealthIsPure ==
    [][ (Dequeued /\ Path = HealthPath) =>
            /\ resp' = Response(200, "health", "")
            /\ cache' = cache
            /\ call' = call
            /\ last' = last
            /\ pc' = "idle"
      ]_vars

C12_Witness ==
    /\ resp = Response(200, "health", "")
    /\ SnapshotStored
    /\ call.state = "returned"

Slashes(n) == [i \in 1..n |-> "/"]
Trims(raw, base) == \E n \in 0..Len(raw) : raw = base \o Slashes(n)
Started(c, force) ==
    /\ c.force = force
    /\ c.now = mono
    /\ c.decision \in {"HIT", "MISS"}

\* C13: routing depends on the path without its trailing slashes only:
\* /usage calls get_usage unforced, /usage/fresh calls it forced, /health
\* answers liveness, and any other path is a 404 without a get_usage call.
C13_RoutingByTrimmedPath ==
    [][ Dequeued =>
          LET raw == Head(backlog)
          IN  /\ Trims(raw, UsagePath) => Started(call', FALSE)
              /\ Trims(raw, FreshPath) => Started(call', TRUE)
              /\ Trims(raw, HealthPath) =>
                    call' = call /\ resp' = Response(200, "health", "")
              /\ (~Trims(raw, UsagePath) /\ ~Trims(raw, FreshPath)
                    /\ ~Trims(raw, HealthPath)) =>
                    call' = call /\ cache' = cache /\ resp' = Response(404, "notfound", "Not found")
      ]_vars

\* "/usage/fresh//" is next and is routed to a forced get_usage
C13_Witness ==
    /\ pc = "idle"
    /\ backlog # <<>>
    /\ Head(backlog) = FreshPath \o <<"/", "/">>
    /\ ENABLED (DoGetUsage /\ call'.force)

\* C14: no error of a request ends the server: after a get_usage call that
\* raised, the server is back in its accept loop, and there it handles
\* whatever request is next.
C14_ServerSurvivesRequestErrors ==
    /\ call.state = "raised" => pc = "idle"
    /\ pc \in {"idle", "keychain", "fetch", "store_data", "store_fetched_at", "store_iso"}
    /\ (pc = "idle" /\ backlog # <<>>) =>
           ENABLED (DoGetHealth \/ DoGetNotFound \/ DoGetUsage)

\* a request was answered after a call ended in an exception do_GET does
\* not catch
C14_Witness ==
    /\ call.state = "raised"
    /\ call.exc # "RuntimeError"
    /\ resp.kind = "health"

\* C15: a missed call whose credential read or fetch fails ends in an error:
\* it returns no result, least of all the stored snapshot, its request is
\* not answered 200, and the stored snapshot stays as it was.
C15_NoStaleFallback ==
    [][ (pc \in {"keychain", "fetch"} /\ pc' = "idle") =>
            /\ call'.state = "raised"
            /\ call'.exc # "none"
            /\ call'.result = NoResult
            /\ resp'.status # 200
            /\ cache' = cache
      ]_vars

\* a fetch failed while a snapshot older than the TTL was stored
C15_Witness ==
    /\ call.state = "raised"
    /\ call.fetches = 1
    /\ SnapshotStored
    /\ Truthy(cache.data)
    /\ call.now - cache.fetched_at >= TTLTicks
    /\ resp.status # 200

\* C16: the cache is one slot: a returned hit carries the payload and the
\* times of the most recent successful fetch, and a returned miss carries
\* cached = false and the payload it fetched itself, which is then the
\* most recent one.
C16_SingleSlot ==
    call.state = "returned" =>
        /\ call.result.usage = last.data
        /\ call.result.fetched_at = last.fetched_at_iso
        /\ call.result.cached =>
              /\ call.decision = "HIT"
              /\ IsRounded(call.result.cache_age_seconds, call.now - last.fetched_at)
        /\ ~call.result.cached =>
              /\ call.decision = "MISS"
              /\ call.result.usage = call.data
              /\ call.now = last.fetched_at

\* a successful fetch is overwriting the snapshot of an earlier fetch
\* that had another payload
C16_Witness ==
    /\ pc = "store_iso"
    /\ "fetched_at_iso" \in DOMAIN cache
    /\ Truthy(last.data)
    /\ cache.data # last.data
    /\ cache.fetched_at > last.fetched_at

\* C17: a call reads the keychain at most once and asks the upstream at
\* most once, and a call that raised stopped at its first failed attempt.
C17_NoRetries ==
    /\ call.reads <= 1
    /\ call.fetches <= 1
    /\ call.fetches <= call.reads
    /\ call.state = "raised" =>
          /\ pc = "idle"
          /\ call.reads = 1
          /\ call.fetches = (IF call.token = NoToken THEN 0 ELSE 1)

C17_Witness ==
    /\ call.state = "raised"
    /\ call.exc = "RuntimeError"
    /\ call.fetches = 1

\* the states that differ from the current one in wall-clock readings only:
\* the wall clock now and the wall clock when the snapshot was stored
OtherWorlds ==
    { World(c, w) :
        c \in IF "fetched_at_iso" \in DOMAIN cache
              THEN {[cache EXCEPT !.fetched_at_iso = i] : i \in IsoTimes}
              ELSE {cache},
        w \in IsoTimes }
WithoutWallClock(result) ==
    [cached |-> result.cached,
     cache_age_seconds |-> result.cache_age_seconds,
     usage |-> result.usage]

\* C18: staleness is decided on the monotonic clock alone. Where a call
\* decides, every state that differs in wall-clock readings only decides
\* the same, with the same cached flag, age and payload; a successful miss
\* leaves the monotonic part of the cache and its result independent of
\* the wall clock; and a change of the wall clock changes nothing else.
\* By induction over the calls, two runs with the same calls, monotonic
\* times and outcomes agree on every decision whatever their wall clocks.
C18_StalenessIgnoresWallClock ==
    [][ /\ DoGetUsage =>
              \A other \in OtherWorlds :
                 LET force == (Path = FreshPath)
                 IN  /\ CacheHitIn(other, force, mono) = (call'.decision = "HIT")
                     /\ call'.decision = "HIT" =>
                           WithoutWallClock(HitResultIn(other, mono))
                              = WithoutWallClock(call'.result)
        /\ StoreIso =>
              /\ cache'.data = call.data
              /\ cache'.fetched_at = call.now
              /\ WithoutWallClock(call'.result)
                    = [cached |-> FALSE, cache_age_seconds |-> 0, usage |-> call.data]
        /\ wall' # wall =>
              /\ cache' = cache
              /\ call' = call
              /\ <<mono, backlog, pc, resp>>' = <<mono, backlog, pc, resp>>
      ]_vars

\* a hit was returned although the wall clock has moved since the snapshot
\* was fetched
C18_Witness ==
    /\ call.state = "returned"
    /\ call.result.cached
    /\ call.result.fetched_at # wall
    /\ call.result.cache_age_seconds > 0

\* C19: the monotonic fetched_at of the cache never decreases: every write
\* stores a value at least as large as the one it replaces.
C19_FetchedAtNeverDecreases ==
    [][cache'.fetched_at >= cache.fetched_at]_vars

\* line 99 is about to replace the time of an earlier fetch by a later one
C19_Witness ==
    /\ pc = "store_fetched_at"
    /\ cache.fetched_at > 0
    /\ call.now > cache.fetched_at

\* C20: every request that do_GET has finished with got a JSON response
\* with status 200, 404 or 500.
C20_EveryRequestIsAnswered ==
    [][ (pc' = "idle" /\ (pc # "idle" \/ Dequeued)) =>
            /\ resp'.status \in {200, 404, 500}
            /\ resp'.kind \in {"health", "usage", "error", "notfound"}
      ]_vars

====
